---- MODULE Spec2Model ----
(***************************************************************************)
(* ERP backend (src/main.py, src/schemas.py): FastAPI handlers over a      *)
(* document store.  Each handler invocation runs on a worker thread; every *)
(* store operation (find_one, insert_one, update_one, find, count) is one  *)
(* atomic step, and steps of different workers interleave freely.          *)
(*                                                                         *)
(* Payloads carry the fields the handlers and validators read (business    *)
(* keys, constrained numbers, the inventory fields, the order status).     *)
(* Quantities are integers: float(x) of a validated float is x itself, and *)
(* the arithmetic of the handler is a single addition.                     *)
(***************************************************************************)
EXTENDS Integers, Sequences, FiniteSets, TLC

\* ---------------------------------------------------------------- bounds
\* Requests received in a behaviour of Spec (the whole API).
MaxRequests == 2
\* Requests received in a behaviour of SpecInv / SpecSeq (inventory endpoints).
MaxTxns == 2
\* Stock levels in an initial store of SpecDash.
MaxLevels == 11

\* Worker threads serving requests concurrently.
Workers == {"w1", "w2"}

\* The times datetime.utcnow() can return.
Times == {0, 1}

Skus == {"A", "B"}
WarehouseCodes == {"MAIN"}
Numbers == {"N1"}
\* on_hand of the i-th stock level of a store SpecDash starts from: positive,
\* or else negative at odd positions and zero at even ones.
DashOnHand(i, low) == IF ~low THEN 1 ELSE IF i % 2 = 1 THEN -1 ELSE 0

\* ------------------------------------------------------------ the store
Collections ==
    {"product", "customer", "supplier", "tax", "warehouse",
     "inventorytransaction", "stocklevel", "salesorder", "invoice", "payment"}

\* The value of a local that holds no document (Python None / falsy).
NoDoc == [_id |-> 0]

VARIABLES
    db,        \* TRUE iff the global store handle `db` is not None
    store,     \* collection name -> sequence of documents, in insertion order
    now,       \* the latest time datetime.utcnow() returned
    pc,        \* worker -> position of its handler
    req,       \* worker -> the request it serves: [kind, payload]
    lvl,       \* worker -> local `lvl` of record_inventory_txn
    txn_id,    \* worker -> local `txn_id` of record_inventory_txn
    totals,    \* worker -> local `totals` of dashboard_summary
    resp,      \* worker -> the response it sent: [status, body]
    started,   \* number of requests received so far
    key_absent_at_start
               \* history: worker -> the business key of its create request was
               \* absent from its collection when the request was received

vars == <<db, store, now, pc, req, lvl, txn_id, totals, resp, started,
          key_absent_at_start>>

\* str(x) of an ObjectId: a string, never the id itself.
str(x) == <<"str", x>>

\* The ObjectId the store assigns to the next inserted document: ids are never
\* reused, and documents are never deleted.
NewId(s) ==
    Len(s["product"]) + Len(s["customer"]) + Len(s["supplier"]) + Len(s["tax"])
        + Len(s["warehouse"]) + Len(s["inventorytransaction"])
        + Len(s["stocklevel"]) + Len(s["salesorder"]) + Len(s["invoice"])
        + Len(s["payment"]) + 1

\* ensure_db: raises HTTP 500 when db is None.
ensure_db == db

\* A document matches the query {field: value, ...}.
Matches(d, q) == \A f \in DOMAIN q : d[f] = q[f]

\* collection(name).find_one(q): the first matching document, or None.
find_one(s, coll, q) ==
    IF \E i \in 1..Len(s[coll]) : Matches(s[coll][i], q)
    THEN LET i == CHOOSE i \in 1..Len(s[coll]) :
                     /\ Matches(s[coll][i], q)
                     /\ \A j \in 1..(i - 1) : ~Matches(s[coll][j], q)
         IN  s[coll][i]
    ELSE NoDoc

\* collection(name).insert_one(doc): the store assigns _id.
insert_one(s, coll, doc) ==
    [s EXCEPT ![coll] = Append(@, [_id |-> NewId(s)] @@ doc)]

\* database.create_document(collection_name, data): insert one record.
create_document(s, coll, data) == insert_one(s, coll, data)

\* database.get_documents(collection_name): all documents of the collection.
get_documents(s, coll) == s[coll]

\* d["id"] = str(d.pop("_id")) for every listed document.
WithId(d) ==
    [f \in (DOMAIN d \ {"_id"}) \cup {"id"} |->
        IF f = "id" THEN str(d._id) ELSE d[f]]

TagIds(docs) == [i \in 1..Len(docs) |-> WithId(docs[i])]

\* ------------------------------------------------------- entity schemas
\* Each schema is the predicate "pydantic accepts this body".
Product(p) == p.price >= 0 /\ p.cost >= 0
Customer(p) == TRUE
Supplier(p) == TRUE
Tax(p) == p.rate >= 0
Warehouse(p) == TRUE
InventoryTransaction(p) == p.type \in {"in", "out", "transfer", "adjustment"}
SalesOrder(p) ==
    p.status \in {"draft", "confirmed", "delivered", "invoiced", "closed"}
Invoice(p) == TRUE
Payment(p) == TRUE

NoPayload == [none |-> TRUE]

ProductBodies ==
    [sku : Skus, price : {10}, cost : {5}]
        \cup {[sku |-> "A", price |-> -1, cost |-> 5],
              [sku |-> "A", price |-> 10, cost |-> -1]}
CustomerBodies == [credit_limit : {-1, 0}]
SupplierBodies == {[name |-> "S"]}
TaxBodies == [rate : {-1, 5}]
WarehouseBodies == [code : WarehouseCodes]
\* One quantity per transaction type; an adjustment carries its own sign.
TypedQuantities ==
    {<<"in", 3>>, <<"out", 5>>, <<"adjustment", -2>>, <<"transfer", 4>>}
InventoryBodies ==
    {[type |-> tq[1], product_sku |-> s, quantity |-> tq[2],
      warehouse_code |-> c] :
        tq \in TypedQuantities, s \in Skus, c \in WarehouseCodes}
SalesOrderBodies == [number : Numbers, status : {"draft", "closed"}]
InvoiceBodies == [number : Numbers]
PaymentBodies == [number : Numbers]

ListKinds ==
    {"list_products", "list_customers", "list_suppliers", "list_taxes",
     "list_warehouses", "list_stock_levels", "list_sales_orders",
     "list_invoices", "list_payments"}

PlainKinds == {"read_root", "test_database", "get_schema_definitions"}

InventoryKinds == {"record_inventory_txn", "list_stock_levels"}

Kinds ==
    {"create_product", "create_customer", "create_supplier", "create_tax",
     "create_warehouse", "record_inventory_txn", "create_sales_order",
     "create_invoice", "create_payment", "dashboard_summary"}
        \cup ListKinds \cup PlainKinds

Bodies(k) ==
    CASE k = "create_product" -> ProductBodies
      [] k = "create_customer" -> CustomerBodies
      [] k = "create_supplier" -> SupplierBodies
      [] k = "create_tax" -> TaxBodies
      [] k = "create_warehouse" -> WarehouseBodies
      [] k = "record_inventory_txn" -> InventoryBodies
      [] k = "create_sales_order" -> SalesOrderBodies
      [] k = "create_invoice" -> InvoiceBodies
      [] k = "create_payment" -> PaymentBodies
      [] OTHER -> {NoPayload}

\* FastAPI validates the body against the handler's parameter type.
Validates(k, p) ==
    CASE k = "create_product" -> Product(p)
      [] k = "create_customer" -> Customer(p)
      [] k = "create_supplier" -> Supplier(p)
      [] k = "create_tax" -> Tax(p)
      [] k = "create_warehouse" -> Warehouse(p)
      [] k = "record_inventory_txn" -> InventoryTransaction(p)
      [] k = "create_sales_order" -> SalesOrder(p)
      [] k = "create_invoice" -> Invoice(p)
      [] k = "create_payment" -> Payment(p)
      [] OTHER -> TRUE

\* The collection and the business-key field of the creates that check one.
KeyedKinds ==
    {"create_product", "create_warehouse", "create_sales_order",
     "create_invoice", "create_payment"}

KeyColl(k) ==
    CASE k = "create_product" -> "product"
      [] k = "create_warehouse" -> "warehouse"
      [] k = "create_sales_order" -> "salesorder"
      [] k = "create_invoice" -> "invoice"
      [] k = "create_payment" -> "payment"

KeyField(k) ==
    CASE k = "create_product" -> "sku"
      [] k = "create_warehouse" -> "code"
      [] OTHER -> "number"

KeysOf(s, coll, f) == {s[coll][i][f] : i \in 1..Len(s[coll])}

\* ------------------------------------------------------------------ init
Idle == [status |-> 0]
NoReq == [kind |-> "none", payload |-> NoPayload]
NoTotals == [products |-> 0]

EmptyStore == [c \in Collections |-> <<>>]

InitWorkers ==
    /\ now = 0
    /\ pc = [w \in Workers |-> "idle"]
    /\ req = [w \in Workers |-> NoReq]
    /\ lvl = [w \in Workers |-> NoDoc]
    /\ txn_id = [w \in Workers |-> str(0)]
    /\ totals = [w \in Workers |-> NoTotals]
    /\ resp = [w \in Workers |-> Idle]
    /\ started = 0
    /\ key_absent_at_start = [w \in Workers |-> FALSE]

Init ==
    /\ db \in BOOLEAN
    /\ store = EmptyStore
    /\ InitWorkers

\* --------------------------------------------------------- request intake
\* A worker picks up a request: FastAPI parses and validates the body against
\* the handler's parameter type before the handler runs (HTTP 422 otherwise).
\* Workers are interchangeable: the one that serves the first request is
\* called w1.  key_absent_at_start records what the store held at intake.
Receive(w, k, p) ==
    /\ pc[w] \in {"idle", "done"}
    /\ w = "w2" => pc["w1"] # "idle"
    /\ req' = [req EXCEPT ![w] = [kind |-> k, payload |-> p]]
    /\ started' = started + 1
    /\ key_absent_at_start' =
           [key_absent_at_start EXCEPT ![w] =
               /\ k \in KeyedKinds
               /\ p[KeyField(k)] \notin KeysOf(store, KeyColl(k), KeyField(k))]
    /\ lvl' = [lvl EXCEPT ![w] = NoDoc]
    /\ txn_id' = [txn_id EXCEPT ![w] = str(0)]
    /\ totals' = [totals EXCEPT ![w] = NoTotals]
    /\ IF Validates(k, p)
       THEN /\ pc' = [pc EXCEPT ![w] = "handler"]
            /\ resp' = [resp EXCEPT ![w] = Idle]
       ELSE /\ pc' = [pc EXCEPT ![w] = "done"]
            /\ resp' = [resp EXCEPT ![w] =
                            [status |-> 422, body |-> "validation error"]]
    /\ UNCHANGED <<db, store, now>>

\* The handler of worker w returns or raises: the response is sent.
Respond(w, status, body) ==
    /\ pc' = [pc EXCEPT ![w] = "done"]
    /\ resp' = [resp EXCEPT ![w] = [status |-> status, body |-> body]]

Serving(w, k) == pc[w] = "handler" /\ req[w].kind = k

\* ------------------------------------------------- creates with a key check
\* if collection(c).find_one({key: value}): raise HTTPException(400)
KeyedCheck(w, k, detail) ==
    /\ Serving(w, k)
    /\ IF ~ensure_db
       THEN Respond(w, 500, "Database not configured")
       ELSE IF find_one(store, KeyColl(k),
                        KeyField(k) :> req[w].payload[KeyField(k)])._id # 0
            THEN Respond(w, 400, detail)
            ELSE /\ pc' = [pc EXCEPT ![w] = "insert"]
                 /\ UNCHANGED resp
    /\ UNCHANGED <<db, store, now, req, lvl, txn_id, totals, started,
                   key_absent_at_start>>

\* new_id = create_document(c, body); return {"id": new_id}
KeyedInsert(w, k, echo) ==
    /\ pc[w] = "insert"
    /\ req[w].kind = k
    /\ store' = create_document(store, KeyColl(k), req[w].payload)
    /\ Respond(w, 200,
               IF echo THEN [id |-> str(NewId(store))] @@ req[w].payload
               ELSE [id |-> str(NewId(store))])
    /\ UNCHANGED <<db, now, req, lvl, txn_id, totals, started,
                   key_absent_at_start>>

\* Fault: the sku check never rejects.
create_product_find_one_no_reject(w) ==
    /\ Serving(w, "create_product")
    /\ ensure_db
    /\ pc' = [pc EXCEPT ![w] = "insert"]
    /\ UNCHANGED <<db, store, now, req, lvl, txn_id, totals, resp, started,
                   key_absent_at_start>>

create_product_find_one(w) ==
    KeyedCheck(w, "create_product", "SKU already exists")

\* Fault: the product is acknowledged but not stored.
create_product_insert_not_stored(w) ==
    /\ pc[w] = "insert"
    /\ req[w].kind = "create_product"
    /\ Respond(w, 200, [id |-> str(NewId(store))] @@ req[w].payload)
    /\ UNCHANGED <<db, store, now, req, lvl, txn_id, totals, started,
                   key_absent_at_start>>

create_product_insert(w) == KeyedInsert(w, "create_product", TRUE)

create_warehouse_find_one(w) ==
    KeyedCheck(w, "create_warehouse", "Warehouse code already exists")

create_warehouse_insert(w) == KeyedInsert(w, "create_warehouse", FALSE)

create_sales_order_find_one(w) ==
    KeyedCheck(w, "create_sales_order", "Order number already exists")

create_sales_order_insert(w) == KeyedInsert(w, "create_sales_order", FALSE)

create_invoice_find_one(w) ==
    KeyedCheck(w, "create_invoice", "Invoice number already exists")

create_invoice_insert(w) == KeyedInsert(w, "create_invoice", FALSE)

create_payment_find_one(w) ==
    KeyedCheck(w, "create_payment", "Payment number already exists")

create_payment_insert(w) == KeyedInsert(w, "create_payment", FALSE)

\* ----------------------------------------------- creates without a key check
PlainCreate(w, k, coll) ==
    /\ Serving(w, k)
    /\ IF ~ensure_db
       THEN /\ Respond(w, 500, "Database not configured")
            /\ UNCHANGED store
       ELSE /\ store' = create_document(store, coll, req[w].payload)
            /\ Respond(w, 200, [id |-> str(NewId(store))])
    /\ UNCHANGED <<db, now, req, lvl, txn_id, totals, started,
                   key_absent_at_start>>

create_customer(w) == PlainCreate(w, "create_customer", "customer")

create_supplier(w) == PlainCreate(w, "create_supplier", "supplier")

create_tax(w) == PlainCreate(w, "create_tax", "tax")

\* -------------------------------------------------------------------- lists
ListDocs(w, k, coll) ==
    /\ Serving(w, k)
    /\ IF ~ensure_db
       THEN Respond(w, 500, "Database not configured")
       ELSE Respond(w, 200, TagIds(get_documents(store, coll)))
    /\ UNCHANGED <<db, store, now, req, lvl, txn_id, totals, started,
                   key_absent_at_start>>

list_products(w) == ListDocs(w, "list_products", "product")

list_customers(w) == ListDocs(w, "list_customers", "customer")

list_suppliers(w) == ListDocs(w, "list_suppliers", "supplier")

list_taxes(w) == ListDocs(w, "list_taxes", "tax")

list_warehouses(w) == ListDocs(w, "list_warehouses", "warehouse")

\* Fault: d.pop("_id") acts on the stored documents, not on copies.
list_stock_levels_pops_stored(w) ==
    /\ Serving(w, "list_stock_levels")
    /\ ensure_db
    /\ store' = [store EXCEPT !["stocklevel"] = TagIds(@)]
    /\ Respond(w, 200, TagIds(get_documents(store, "stocklevel")))
    /\ UNCHANGED <<db, now, req, lvl, txn_id, totals, started,
                   key_absent_at_start>>

list_stock_levels(w) == ListDocs(w, "list_stock_levels", "stocklevel")

list_sales_orders(w) == ListDocs(w, "list_sales_orders", "salesorder")

list_invoices(w) == ListDocs(w, "list_invoices", "invoice")

list_payments(w) == ListDocs(w, "list_payments", "payment")

\* ------------------------------------------------------ storeless endpoints
read_root(w) ==
    /\ Serving(w, "read_root")
    /\ Respond(w, 200, [message |-> "ERP Backend Running"])
    /\ UNCHANGED <<db, store, now, req, lvl, txn_id, totals, started,
                   key_absent_at_start>>

\* db.list_collection_names(): the collections that hold a document.
test_database(w) ==
    /\ Serving(w, "test_database")
    /\ Respond(w, 200,
               IF db
               THEN [database |-> "Connected & Working",
                     collections |-> {c \in Collections : store[c] # <<>>}]
               ELSE [database |-> "Not Available", collections |-> {}])
    /\ UNCHANGED <<db, store, now, req, lvl, txn_id, totals, started,
                   key_absent_at_start>>

get_schema_definitions(w) ==
    /\ Serving(w, "get_schema_definitions")
    /\ Respond(w, 200, [models |-> "schemas"])
    /\ UNCHANGED <<db, store, now, req, lvl, txn_id, totals, started,
                   key_absent_at_start>>

\* ---------------------------------------------------------------- inventory
\* Fault: an 'out' is not negated.
change_out_unsigned(data) ==
    IF data.type \in {"in", "out", "adjustment"} THEN data.quantity ELSE 0

\* Fault: a transfer moves its quantity.
change_transfer_moves(data) ==
    IF data.type = "out" THEN -data.quantity ELSE data.quantity

\* The signed change of a transaction (main.py: change = ...).
change(data) ==
    IF data.type = "in" THEN data.quantity
    ELSE IF data.type = "out" THEN -data.quantity
    ELSE IF data.type = "adjustment" THEN data.quantity
    ELSE 0

SamePair(d, data) ==
    /\ d.product_sku = data.product_sku
    /\ d.warehouse_code = data.warehouse_code

\* collection(c).update_one({"_id": id}, {"$set": fields})
update_one(s, coll, id, fields) ==
    [s EXCEPT ![coll] =
        [i \in 1..Len(s[coll]) |->
            IF s[coll][i]._id = id THEN fields @@ s[coll][i] ELSE s[coll][i]]]

\* txn_id = create_document("inventorytransaction", data)
record_inventory_txn_create(w) ==
    /\ Serving(w, "record_inventory_txn")
    /\ IF ~ensure_db
       THEN /\ Respond(w, 500, "Database not configured")
            /\ UNCHANGED <<store, txn_id>>
       ELSE /\ store' = create_document(store, "inventorytransaction",
                                        req[w].payload)
            /\ txn_id' = [txn_id EXCEPT ![w] = str(NewId(store))]
            /\ pc' = [pc EXCEPT ![w] = "find"]
            /\ UNCHANGED resp
    /\ UNCHANGED <<db, now, req, lvl, totals, started, key_absent_at_start>>

\* lvl = collection("stocklevel").find_one({product_sku, warehouse_code})
record_inventory_txn_find_one(w) ==
    /\ pc[w] = "find"
    /\ lvl' = [lvl EXCEPT ![w] =
                  find_one(store, "stocklevel",
                      [product_sku |-> req[w].payload.product_sku,
                       warehouse_code |-> req[w].payload.warehouse_code])]
    /\ pc' = [pc EXCEPT ![w] = "write"]
    /\ UNCHANGED <<db, store, now, req, txn_id, totals, resp, started,
                   key_absent_at_start>>

\* datetime.utcnow(): a time no earlier than the latest one returned.
utcnow(t) == t \in Times /\ t >= now

\* Variant: an atomic $inc of the stored
\* on_hand instead of a $set of a value computed from the read.
record_inventory_txn_update_inc(w) ==
    /\ pc[w] = "write"
    /\ lvl[w]._id # 0
    /\ \E t \in Times :
          /\ utcnow(t)
          /\ now' = t
          /\ store' = [store EXCEPT !["stocklevel"] =
                [i \in 1..Len(store["stocklevel"]) |->
                    IF store["stocklevel"][i]._id = lvl[w]._id
                    THEN [store["stocklevel"][i] EXCEPT
                             !.on_hand = @ + change(req[w].payload),
                             !.updated_at = t]
                    ELSE store["stocklevel"][i]]]
    /\ Respond(w, 200, [id |-> txn_id[w],
                        applied_change |-> change(req[w].payload)])
    /\ UNCHANGED <<db, req, lvl, txn_id, totals, started, key_absent_at_start>>

\* if lvl: update_one({"_id": lvl["_id"]}, {"$set": {on_hand, updated_at}})
record_inventory_txn_update(w) ==
    /\ pc[w] = "write"
    /\ lvl[w]._id # 0
    /\ \E t \in Times :
          /\ utcnow(t)
          /\ now' = t
          /\ store' = update_one(store, "stocklevel", lvl[w]._id,
                        [on_hand |-> lvl[w].on_hand + change(req[w].payload),
                         updated_at |-> t])
    /\ Respond(w, 200, [id |-> txn_id[w],
                        applied_change |-> change(req[w].payload)])
    /\ UNCHANGED <<db, req, lvl, txn_id, totals, started, key_absent_at_start>>

\* else: insert_one({product_sku, warehouse_code, on_hand: change, reserved: 0})
record_inventory_txn_insert(w) ==
    /\ pc[w] = "write"
    /\ lvl[w]._id = 0
    /\ \E t1 \in Times, t2 \in Times :
          /\ utcnow(t1)
          /\ t1 <= t2
          /\ now' = t2
          /\ store' = insert_one(store, "stocklevel",
                        [product_sku |-> req[w].payload.product_sku,
                         warehouse_code |-> req[w].payload.warehouse_code,
                         on_hand |-> change(req[w].payload),
                         reserved |-> 0,
                         created_at |-> t1,
                         updated_at |-> t2])
    /\ Respond(w, 200, [id |-> txn_id[w],
                        applied_change |-> change(req[w].payload)])
    /\ UNCHANGED <<db, req, lvl, txn_id, totals, started, key_absent_at_start>>

\* ---------------------------------------------------------------- dashboard
LowStockLimit == 10

\* collection(name).count_documents(q), q = {field: {"$in": values}, ...}.
count_documents(s, coll, q) ==
    Cardinality({i \in 1..Len(s[coll]) :
                    \A f \in DOMAIN q : s[coll][i][f] \in q[f]})

\* cursor.limit(n): the first n documents.
limit(docs, n) == SubSeq(docs, 1, IF Len(docs) < n THEN Len(docs) ELSE n)

\* Fault: the cursor is not limited.
low_stock_find_unlimited(s) ==
    SelectSeq(s["stocklevel"], LAMBDA d : d.on_hand <= 0)

\* collection("stocklevel").find({"on_hand": {"$lte": 0}}).limit(10)
low_stock_find(s) ==
    limit(SelectSeq(s["stocklevel"], LAMBDA d : d.on_hand <= 0), LowStockLimit)

\* ensure_db(); totals = {...: count_documents(...)}
dashboard_summary_totals(w) ==
    /\ Serving(w, "dashboard_summary")
    /\ IF ~ensure_db
       THEN /\ Respond(w, 500, "Database not configured")
            /\ UNCHANGED totals
       ELSE /\ totals' = [totals EXCEPT ![w] =
                [products |-> count_documents(store, "product", <<>>),
                 customers |-> count_documents(store, "customer", <<>>),
                 suppliers |-> count_documents(store, "supplier", <<>>),
                 open_sales_orders |->
                     count_documents(store, "salesorder",
                         [status |-> {"draft", "confirmed"}]),
                 invoices |-> count_documents(store, "invoice", <<>>),
                 payments |-> count_documents(store, "payment", <<>>),
                 stock_items |-> count_documents(store, "stocklevel", <<>>)]]
            /\ pc' = [pc EXCEPT ![w] = "low_stock"]
            /\ UNCHANGED resp
    /\ UNCHANGED <<db, store, now, req, lvl, txn_id, started,
                   key_absent_at_start>>

\* low_stock = list(find(...).limit(10)); return {totals, low_stock}
dashboard_summary_low_stock(w) ==
    /\ pc[w] = "low_stock"
    /\ Respond(w, 200, [totals |-> totals[w],
                        low_stock |-> TagIds(low_stock_find(store))])
    /\ UNCHANGED <<db, store, now, req, lvl, txn_id, totals, started,
                   key_absent_at_start>>

\* ------------------------------------------------------------ specifications
InventorySteps(w) ==
    \/ record_inventory_txn_create(w)
    \/ record_inventory_txn_find_one(w)
    \/ record_inventory_txn_update(w)
    \/ record_inventory_txn_insert(w)
    \/ list_stock_levels(w)

\* The whole API, requests served concurrently.
Next ==
    \/ \E w \in Workers, k \in Kinds :
          \E p \in Bodies(k) : started < MaxRequests /\ Receive(w, k, p)
    \/ \E w \in Workers :
          \/ create_product_find_one(w)
          \/ create_product_insert(w)
          \/ create_warehouse_find_one(w)
          \/ create_warehouse_insert(w)
          \/ create_sales_order_find_one(w)
          \/ create_sales_order_insert(w)
          \/ create_invoice_find_one(w)
          \/ create_invoice_insert(w)
          \/ create_payment_find_one(w)
          \/ create_payment_insert(w)
          \/ create_customer(w)
          \/ create_supplier(w)
          \/ create_tax(w)
          \/ list_products(w)
          \/ list_customers(w)
          \/ list_suppliers(w)
          \/ list_taxes(w)
          \/ list_warehouses(w)
          \/ list_sales_orders(w)
          \/ list_invoices(w)
          \/ list_payments(w)
          \/ read_root(w)
          \/ test_database(w)
          \/ get_schema_definitions(w)
          \/ dashboard_summary_totals(w)
          \/ dashboard_summary_low_stock(w)
          \/ InventorySteps(w)

Spec == Init /\ [][Next]_vars

\* The inventory endpoints alone, requests served concurrently.
NextInv ==
    \/ \E w \in Workers, k \in InventoryKinds :
          \E p \in Bodies(k) : started < MaxTxns /\ Receive(w, k, p)
    \/ \E w \in Workers : InventorySteps(w)

\* The store after one completed POST /inventory/transactions
\* {type: in, product_sku: A, quantity: 3, warehouse_code: MAIN} at time 0.
StockedStore ==
    insert_one(create_document(EmptyStore, "inventorytransaction",
                   [type |-> "in", product_sku |-> "A", quantity |-> 3,
                    warehouse_code |-> "MAIN"]),
               "stocklevel",
               [product_sku |-> "A", warehouse_code |-> "MAIN", on_hand |-> 3,
                reserved |-> 0, created_at |-> 0, updated_at |-> 0])

\* The process starts on a configured store: empty, or one that earlier
\* requests have written.
InitInv ==
    /\ db = TRUE
    /\ store \in {EmptyStore, StockedStore}
    /\ InitWorkers

SpecInv == InitInv /\ [][NextInv]_vars

\* A request on a (product_sku, warehouse_code) pair is in flight.
InFlight(w, sku, code) ==
    /\ pc[w] \in {"handler", "find", "write"}
    /\ req[w].kind = "record_inventory_txn"
    /\ req[w].payload.product_sku = sku
    /\ req[w].payload.warehouse_code = code

\* The inventory endpoints, where the requests on one pair do not overlap.
NextSeq ==
    \/ \E w \in Workers, k \in InventoryKinds :
          \E p \in Bodies(k) :
             /\ started < MaxTxns
             /\ k = "record_inventory_txn" =>
                    \A v \in Workers :
                        ~InFlight(v, p.product_sku, p.warehouse_code)
             /\ Receive(w, k, p)
    \/ \E w \in Workers : InventorySteps(w)

SpecSeq == InitInv /\ [][NextSeq]_vars

\* GET /dashboard on a store holding any bounded list of stock levels.
DashCodes ==
    <<"W01", "W02", "W03", "W04", "W05", "W06", "W07", "W08", "W09", "W10",
      "W11", "W12", "W13", "W14", "W15", "W16">>

DashLevel(i, h) ==
    [_id |-> i, product_sku |-> "A", warehouse_code |-> DashCodes[i],
     on_hand |-> h, reserved |-> 0, created_at |-> 0, updated_at |-> 0]

InitDash ==
    /\ db = TRUE
    /\ \E n \in 0..MaxLevels :
          \E lows \in [1..n -> BOOLEAN] :
             store = [EmptyStore EXCEPT
                         !["stocklevel"] =
                             [i \in 1..n |->
                                 DashLevel(i, DashOnHand(i, lows[i]))]]
    /\ InitWorkers

NextDash ==
    \/ started < 1 /\ Receive("w1", "dashboard_summary", NoPayload)
    \/ dashboard_summary_totals("w1")
    \/ dashboard_summary_low_stock("w1")

SpecDash == InitDash /\ [][NextDash]_vars

\* ------------------------------------------------------------------ claims
Done(w) == pc[w] = "done"

Levels == store["stocklevel"]

Txns == store["inventorytransaction"]

IsTxn(w) == req[w].kind = "record_inventory_txn"

\* Worker w takes a step of its handler.
Steps(w) == pc[w] \in {"handler", "insert", "find", "write", "low_stock"}
                /\ pc'[w] # pc[w]

NoTwoShare(coll, f) ==
    \A i, j \in 1..Len(store[coll]) :
        i # j => store[coll][i][f] # store[coll][j][f]

\* C1: in every reachable state no two products share a sku, no two warehouses
\* a code, and no two sales orders, invoices or payments a number.
C1_BusinessKeysUnique ==
    /\ NoTwoShare("product", "sku")
    /\ NoTwoShare("warehouse", "code")
    /\ NoTwoShare("salesorder", "number")
    /\ NoTwoShare("invoice", "number")
    /\ NoTwoShare("payment", "number")

KeyOf(w) == req[w].payload[KeyField(req[w].kind)]

KeyPresent(w) ==
    KeyOf(w) \in KeysOf(store, KeyColl(req[w].kind), KeyField(req[w].kind))

\* C2: a create request whose business key is present in its collection ends
\* with the conflict error (400) and leaves the store as it was.
C2_DuplicateKeyRejected ==
    [][\A w \in Workers :
          (/\ pc[w] = "handler"
           /\ req[w].kind \in KeyedKinds
           /\ KeyPresent(w)
           /\ Steps(w))
          => (/\ pc'[w] = "done"
              /\ resp'[w].status = 400
              /\ store' = store)]_vars

\* C2 witness: a create ended in the conflict error and its key is held by
\* exactly one document.
C2_Witness ==
    \E w \in Workers :
        /\ Done(w)
        /\ req[w].kind \in KeyedKinds
        /\ resp[w].status = 400
        /\ Cardinality({i \in 1..Len(store[KeyColl(req[w].kind)]) :
               store[KeyColl(req[w].kind)][i][KeyField(req[w].kind)] = KeyOf(w)})
             = 1

Created(v) ==
    /\ Done(v)
    /\ req[v].kind = "create_product"
    /\ resp[v].status = 200

Lists(body, sku) == \E i \in 1..Len(body) : body[i].sku = sku

SignedChange(d) ==
    CASE d.type = "in" -> d.quantity
      [] d.type = "out" -> 0 - d.quantity
      [] d.type = "adjustment" -> d.quantity
      [] OTHER -> 0

RECURSIVE SumOfChanges(_)
SumOfChanges(ds) ==
    IF ds = <<>> THEN 0
    ELSE SumOfChanges(SubSeq(ds, 1, Len(ds) - 1)) + SignedChange(ds[Len(ds)])

OfPair(ds, sku, code) ==
    SelectSeq(ds, LAMBDA d : d.product_sku = sku /\ d.warehouse_code = code)

Quiet(sku, code) == \A w \in Workers : ~InFlight(w, sku, code)

\* C4: when the requests on a pair do not overlap, every one is accepted and
\* after each the pair's single StockLevel has on_hand equal to the sum of the
\* signed changes of the pair's recorded transactions.
C4_OnHandIsSumOfChanges ==
    /\ \A w \in Workers :
          (Done(w) /\ IsTxn(w))
          => (/\ resp[w].status = 200
              /\ resp[w].body.applied_change = SignedChange(req[w].payload))
    /\ \A sku \in Skus, code \in WarehouseCodes :
          Quiet(sku, code)
          => LET ts == OfPair(Txns, sku, code)
                 ls == OfPair(Levels, sku, code)
             IN  IF ts = <<>> THEN ls = <<>>
                 ELSE Len(ls) = 1 /\ ls[1].on_hand = SumOfChanges(ts)

\* C4 witness: an 'out' was applied to an existing StockLevel and drove its
\* on_hand negative.
C4_Witness ==
    \E w \in Workers :
        /\ Done(w)
        /\ IsTxn(w)
        /\ req[w].payload.type = "out"
        /\ lvl[w]._id # 0
        /\ Quiet(req[w].payload.product_sku, req[w].payload.warehouse_code)
        /\ \E i \in 1..Len(Levels) :
               /\ Levels[i]._id = lvl[w]._id
               /\ Levels[i].on_hand < 0
               /\ Levels[i].on_hand = lvl[w].on_hand - req[w].payload.quantity

IsTransfer(w) == IsTxn(w) /\ req[w].payload.type = "transfer"

AppliedZero(w) ==
    (pc'[w] = "done" /\ resp'[w].status = 200)
        => resp'[w].body.applied_change = 0

\* C5 as claimed: a transfer request reports applied_change = 0 and leaves the
\* stocklevel collection exactly as it was.
C5_TransferLeavesStockLevels ==
    [][\A w \in Workers :
          (IsTransfer(w) /\ Steps(w))
          => (AppliedZero(w) /\ store'["stocklevel"] = store["stocklevel"])
      ]_vars

\* C5 as amended: a transfer request reports applied_change = 0; the only
\* StockLevel it writes is the one it read for its pair, whose on_hand it sets
\* to the value it read and whose updated_at it refreshes, or else it inserts
\* one StockLevel for the pair with on_hand 0 and reserved 0; every other
\* StockLevel stays as it was.
C5_TransferKeepsOnHand ==
    [][\A w \in Workers :
          (IsTransfer(w) /\ Steps(w))
          => LET old == store["stocklevel"]
                 new == store'["stocklevel"]
                 wrote == pc[w] = "write"
             IN  /\ AppliedZero(w)
                 /\ \A i \in 1..Len(old) :
                       IF wrote /\ old[i]._id = lvl[w]._id
                       THEN new[i] = [old[i] EXCEPT !.on_hand = lvl[w].on_hand,
                                                    !.updated_at = now']
                       ELSE new[i] = old[i]
                 /\ IF wrote /\ lvl[w]._id = 0
                    THEN /\ Len(new) = Len(old) + 1
                         /\ new[Len(new)].on_hand = 0
                         /\ new[Len(new)].reserved = 0
                         /\ SamePair(new[Len(new)], req[w].payload)
                    ELSE Len(new) = Len(old)
      ]_vars

\* C5 witness: a transfer found its pair's StockLevel with a nonzero on_hand,
\* left that on_hand and refreshed updated_at.
C5_Witness ==
    \E w \in Workers :
        /\ Done(w)
        /\ IsTransfer(w)
        /\ resp[w].body.applied_change = 0
        /\ lvl[w]._id # 0
        /\ lvl[w].on_hand # 0
        /\ \E i \in 1..Len(Levels) :
               /\ Levels[i]._id = lvl[w]._id
               /\ Levels[i].on_hand = lvl[w].on_hand
               /\ Levels[i].updated_at # lvl[w].updated_at

Recorded(w) == \E i \in 1..Len(Txns) : str(Txns[i]._id) = txn_id[w]

\* C6: the stock-level write is an absolute $set computed from the on_hand the
\* request read, whatever the StockLevel holds when the write runs, and the
\* transaction of every request that reached the write stays recorded.
C6_WriteIsAbsoluteFromRead ==
    [][\A w \in Workers :
          (pc[w] = "write" /\ lvl[w]._id # 0 /\ Steps(w))
          => /\ \E i \in 1..Len(Levels) :
                   /\ Levels[i]._id = lvl[w]._id
                   /\ store'["stocklevel"][i].on_hand
                        = lvl[w].on_hand + SignedChange(req[w].payload)
             /\ Recorded(w)
             /\ store'["inventorytransaction"] = Txns
      ]_vars

\* C6 witness (the lost update): two completed requests on one pair read the
\* same StockLevel, both transactions are recorded, and on_hand holds only one
\* of the two changes.
C6_LostUpdate ==
    \E v, w \in Workers :
        /\ v # w
        /\ Done(v) /\ Done(w)
        /\ IsTxn(v) /\ IsTxn(w)
        /\ resp[v].status = 200 /\ resp[w].status = 200
        /\ SamePair(req[v].payload, req[w].payload)
        /\ lvl[v]._id # 0
        /\ lvl[v] = lvl[w]
        /\ Recorded(v) /\ Recorded(w) /\ txn_id[v] # txn_id[w]
        /\ resp[v].body.applied_change # 0
        /\ resp[w].body.applied_change # 0
        /\ \E i \in 1..Len(Levels) :
               /\ Levels[i]._id = lvl[v]._id
               /\ Levels[i].on_hand
                    = lvl[v].on_hand + resp[w].body.applied_change
               /\ Levels[i].on_hand
                    # lvl[v].on_hand + resp[v].body.applied_change
                                     + resp[w].body.applied_change

IsDashboard(w) ==
    Done(w) /\ req[w].kind = "dashboard_summary" /\ resp[w].status = 200

ViolatesConstraint(r) ==
    \/ r.kind = "create_product" /\ (r.payload.price < 0 \/ r.payload.cost < 0)
    \/ r.kind = "create_tax" /\ r.payload.rate < 0
    \/ r.kind = "create_customer" /\ r.payload.credit_limit < 0

\* C8: a create request whose body has price < 0, cost < 0, rate < 0 or
\* credit_limit < 0 is rejected with a client error before the store: its
\* handler never runs and no such document is stored.
C8_ConstraintViolationsRejected ==
    /\ \A w \in Workers :
          (pc[w] # "idle" /\ ViolatesConstraint(req[w]))
          => (Done(w) /\ resp[w].status = 422)
    /\ \A i \in 1..Len(store["product"]) :
          store["product"][i].price >= 0 /\ store["product"][i].cost >= 0
    /\ \A i \in 1..Len(store["tax"]) : store["tax"][i].rate >= 0
    /\ \A i \in 1..Len(store["customer"]) :
          store["customer"][i].credit_limit >= 0

\* C9: documents outside stocklevel are never modified or deleted (their
\* collections only grow), and only the stock-level write of
\* POST /inventory/transactions changes the stocklevel collection.
C9_OnlyStockLevelsChange ==
    [][/\ \A c \in Collections \ {"stocklevel"} :
            /\ Len(store'[c]) >= Len(store[c])
            /\ \A i \in 1..Len(store[c]) : store'[c][i] = store[c][i]
       /\ store'["stocklevel"] # store["stocklevel"]
            => \E w \in Workers :
                  IsTxn(w) /\ pc[w] = "write" /\ pc'[w] = "done"
      ]_vars

\* C9 witness: a recorded transaction's StockLevel was updated by a later
\* request while both transactions stay stored.
C9_Witness ==
    \E w \in Workers :
        /\ Done(w)
        /\ IsTxn(w)
        /\ lvl[w]._id # 0
        /\ Len(Txns) >= 2
        /\ \E i \in 1..Len(Levels) :
               Levels[i]._id = lvl[w]._id /\ Levels[i] # lvl[w]

\* C10: the stocklevel collection holds at most one document per
\* (product_sku, warehouse_code) pair.
C10_OneLevelPerPair ==
    \A i, j \in 1..Len(Levels) :
        i # j => ~SamePair(Levels[i], Levels[j])

====
